---- MODULE Spec2Model ----
(***************************************************************************)
(* A model of astroquery/mast/utils.py: the three module-level functions   *)
(* _parse_type, _simple_request and resolve_object.                        *)
(*                                                                         *)
(* A Python str is a sequence of one-character strings, so that lower(),   *)
(* format(), json.dumps() and URL-encoding are computed character by       *)
(* character.  One behaviour of the model is one call: Init draws the      *)
(* function called, its arguments and what the (mocked) transport will     *)
(* answer, and the function's action runs the call to its return or raise. *)
(***************************************************************************)
EXTENDS Integers, Sequences, FiniteSets, TLC

VARIABLES pc, func, dbtype, url, params, objectname,
          server, version, session_ua, transport,
          wire, trace, raised, returned

vars == <<pc, func, dbtype, url, params, objectname,
          server, version, session_ua, transport,
          wire, trace, raised, returned>>

-----------------------------------------------------------------------------
(* Bounds of the model.                                                    *)

\* longest unrecognised type token drawn over TokenAlphabet
MaxTokenLen == 2
\* longest object name drawn over NameAlphabet
MaxNameLen == 2
\* most candidates in a response's resolvedCoordinate
MaxCandidates == 2

-----------------------------------------------------------------------------
(* Python strings.                                                         *)

LowerChars == <<"a","b","c","d","e","f","g","h","i","j","k","l","m",
                "n","o","p","q","r","s","t","u","v","w","x","y","z">>

UpperChars == <<"A","B","C","D","E","F","G","H","I","J","K","L","M",
                "N","O","P","Q","R","S","T","U","V","W","X","Y","Z">>

\* every sequence over alphabet A of length lo..hi
Strings(A, lo, hi) == UNION {[1..n -> A] : n \in lo..hi}

\* str.lower() of one (ASCII) character
lower_char(c) ==
    IF \E i \in 1..Len(UpperChars) : UpperChars[i] = c
    THEN LowerChars[CHOOSE i \in 1..Len(UpperChars) : UpperChars[i] = c]
    ELSE c

\* str.upper() of one (ASCII) character
upper_char(c) ==
    IF \E i \in 1..Len(LowerChars) : LowerChars[i] = c
    THEN UpperChars[CHOOSE i \in 1..Len(LowerChars) : LowerChars[i] = c]
    ELSE c

\* str.lower()
lower(s) == [i \in 1..Len(s) |-> lower_char(s[i])]

\* str.upper()
upper(s) == [i \in 1..Len(s) |-> upper_char(s[i])]

-----------------------------------------------------------------------------
(* Python values that _parse_type hands out.                               *)

PyStr(s)   == [kind |-> "str",  s |-> s,    name |-> "",   n |-> 0]
PyType(t)  == [kind |-> "type", s |-> <<>>, name |-> t,    n |-> 0]
PyInt(k)   == [kind |-> "int",  s |-> <<>>, name |-> "",   n |-> k]
PyNaN      == [kind |-> "nan",  s |-> <<>>, name |-> "",   n |-> 0]
PyNone     == [kind |-> "None", s |-> <<>>, name |-> "",   n |-> 0]

\* dict.get(key, default) of a dict kept as a sequence of [key, value] items
DictGet(d, key, default) ==
    IF \E i \in 1..Len(d) : d[i].key = key
    THEN d[CHOOSE i \in 1..Len(d) : d[i].key = key].value
    ELSE default

\* the dict literal of _parse_type
TypeTable ==
    << [key |-> <<"c","h","a","r">>,
        value |-> <<PyStr(<<"s","t","r","i","n","g">>), PyType("str"), PyStr(<<>>)>>],
       [key |-> <<"s","t","r","i","n","g">>,
        value |-> <<PyStr(<<"s","t","r","i","n","g">>), PyType("str"), PyStr(<<>>)>>],
       [key |-> <<"d","a","t","e","t","i","m","e">>,
        value |-> <<PyStr(<<"s","t","r","i","n","g">>), PyType("str"), PyStr(<<>>)>>],
       [key |-> <<"d","a","t","e">>,
        value |-> <<PyStr(<<"s","t","r","i","n","g">>), PyType("str"), PyStr(<<>>)>>],
       [key |-> <<"d","o","u","b","l","e">>,
        value |-> <<PyStr(<<"f","l","o","a","t">>), PyType("np.float64"), PyNaN>>],
       [key |-> <<"f","l","o","a","t">>,
        value |-> <<PyStr(<<"f","l","o","a","t">>), PyType("np.float64"), PyNaN>>],
       [key |-> <<"d","e","c","i","m","a","l">>,
        value |-> <<PyStr(<<"f","l","o","a","t">>), PyType("np.float64"), PyNaN>>],
       [key |-> <<"i","n","t">>,
        value |-> <<PyStr(<<"i","n","t","e","g","e","r">>), PyType("np.int64"), PyInt(-999)>>],
       [key |-> <<"s","h","o","r","t">>,
        value |-> <<PyStr(<<"i","n","t","e","g","e","r">>), PyType("np.int64"), PyInt(-999)>>],
       [key |-> <<"l","o","n","g">>,
        value |-> <<PyStr(<<"i","n","t","e","g","e","r">>), PyType("np.int64"), PyInt(-999)>>],
       [key |-> <<"n","u","m","b","e","r">>,
        value |-> <<PyStr(<<"i","n","t","e","g","e","r">>), PyType("np.int64"), PyInt(-999)>>],
       [key |-> <<"b","o","o","l","e","a","n">>,
        value |-> <<PyStr(<<"b","o","o","l","e","a","n">>), PyType("bool"), PyNone>>],
       [key |-> <<"b","i","n","a","r","y">>,
        value |-> <<PyStr(<<"b","o","o","l","e","a","n">>), PyType("bool"), PyNone>>],
       [key |-> <<"u","n","s","i","g","n","e","d","b","y","t","e">>,
        value |-> <<PyStr(<<"b","y","t","e">>), PyType("np.ubyte"), PyInt(-999)>>] >>

\* _parse_type with the lower-casing left out: the lookup sees the token as passed
_parse_type_no_lower(token) ==
    DictGet(TypeTable, token, <<PyStr(token), PyStr(token), PyStr(token)>>)

\* _parse_type(dbtype): the parameter is rebound to its lower-casing, and both
\* the lookup key and the fallback triplet are that rebound value
_parse_type(token) ==
    LET lowered == lower(token)
    IN  DictGet(TypeTable, lowered, <<PyStr(lowered), PyStr(lowered), PyStr(lowered)>>)

\* the keys of the table
RecognizedTokens == {TypeTable[i].key : i \in 1..Len(TypeTable)}

\* every letter-casing of token t
Casings(t) ==
    {[i \in 1..Len(t) |-> IF i \in U THEN upper_char(t[i]) ELSE t[i]] :
        U \in SUBSET (1..Len(t))}

TokenAlphabet == {"a", "Z", "_", "8"}

\* near misses of table keys, in mixed case
NearMisses ==
    { <<"I","n","t","8">>, <<"s","h","o","r","t","s">>, <<" ","i","n","t">>,
      <<"V","A","R","C","H","A","R">>, <<"u","u","i","d">>, <<"B","o","o","l">> }

\* what the callers pass as dbtype
DbTypes ==
    UNION {Casings(t) : t \in RecognizedTokens}
      \cup Strings(TokenAlphabet, 0, MaxTokenLen) \cup NearMisses

-----------------------------------------------------------------------------
(* Exceptions and the outcome of a call.                                   *)

NoExc == [type |-> "", at |-> "", msg |-> <<>>]

Exc(type, at, msg) == [type |-> type, at |-> at, msg |-> msg]

\* how a call ended: the exception raised or the value returned (a set of at
\* most one value), the requests put on the wire and the steps taken, in order
Raise(e, w, tr) == [raised |-> e, returned |-> {}, wire |-> w, trace |-> tr]

Return(v, w, tr) == [raised |-> NoExc, returned |-> {v}, wire |-> w, trace |-> tr]

-----------------------------------------------------------------------------
(* _simple_request.                                                        *)

\* "astroquery/{} {}".format(version, session.headers['User-Agent'])
user_agent(ver, ua) ==
    <<"a","s","t","r","o","q","u","e","r","y","/">> \o ver \o <<" ">> \o ua

\* a headers dict whose User-Agent is the transport's default alone
headers_without_version(ver, ua) ==
    << [key |-> <<"U","s","e","r","-","A","g","e","n","t">>, value |-> ua],
       [key |-> <<"C","o","n","t","e","n","t","-","t","y","p","e">>,
        value |-> <<"a","p","p","l","i","c","a","t","i","o","n","/","x","-","w","w","w",
                    "-","f","o","r","m","-","u","r","l","e","n","c","o","d","e","d">>],
       [key |-> <<"A","c","c","e","p","t">>,
        value |-> <<"t","e","x","t","/","p","l","a","i","n">>] >>

\* the headers dict literal of _simple_request
build_headers(ver, ua) ==
    << [key |-> <<"U","s","e","r","-","A","g","e","n","t">>,
        value |-> user_agent(ver, ua)],
       [key |-> <<"C","o","n","t","e","n","t","-","t","y","p","e">>,
        value |-> <<"a","p","p","l","i","c","a","t","i","o","n","/","x","-","w","w","w",
                    "-","f","o","r","m","-","u","r","l","e","n","c","o","d","e","d">>],
       [key |-> <<"A","c","c","e","p","t">>,
        value |-> <<"t","e","x","t","/","p","l","a","i","n">>] >>

\* raise_for_status that takes only server errors for failures
raise_for_status_5xx_only(status_code) == 500 <= status_code /\ status_code < 600

\* response.raise_for_status(): TRUE when it raises HTTPError, which requests
\* does for client errors (400..499) and server errors (500..599) only
raise_for_status(status_code) ==
    \/ 400 <= status_code /\ status_code < 500
    \/ 500 <= status_code /\ status_code < 600

\* the request that requests.get(url, params=params, headers=headers) issues
get_request(u, p, h) == [method |-> "GET", url |-> u, params |-> p, headers |-> h]

\* _simple_request that issues the GET again when the first one failed
_simple_request_retry(u, p, ver, ua, tr) ==
    LET request == get_request(u, p, build_headers(ver, ua))
    IN  IF tr.kind = "ConnectionError"
        THEN Raise(Exc("ConnectionError", "requests.get", <<>>), <<request, request>>,
                   <<"requests.session", "requests.get", "requests.get">>)
        ELSE IF raise_for_status(tr.response.status_code)
        THEN Raise(Exc("HTTPError", "raise_for_status", <<>>), <<request, request>>,
                   <<"requests.session", "requests.get", "raise_for_status",
                     "requests.get", "raise_for_status">>)
        ELSE Return(tr.response, <<request>>,
                    <<"requests.session", "requests.get", "raise_for_status">>)

\* _simple_request(url, params), given the version, the session's default
\* User-Agent and what the transport answers to the GET
_simple_request(u, p, ver, ua, tr) ==
    LET request == get_request(u, p, build_headers(ver, ua))
    IN  IF tr.kind = "ConnectionError"
        THEN Raise(Exc("ConnectionError", "requests.get", <<>>), <<request>>,
                   <<"requests.session", "requests.get">>)
        ELSE IF raise_for_status(tr.response.status_code)
        THEN Raise(Exc("HTTPError", "raise_for_status", <<>>), <<request>>,
                   <<"requests.session", "requests.get", "raise_for_status">>)
        ELSE Return(tr.response, <<request>>,
                    <<"requests.session", "requests.get", "raise_for_status">>)

-----------------------------------------------------------------------------
(* json.dumps and urllib.parse.urlencode, as resolve_object calls them.    *)

JStr(s)      == [kind |-> "str",  s |-> s,    items |-> <<>>]
JDict(items) == [kind |-> "dict", s |-> <<>>, items |-> items]

\* the JSON encoder's escapes of the characters of a str (ASCII, no controls)
RECURSIVE json_escape(_)
json_escape(s) ==
    IF Len(s) = 0 THEN <<>>
    ELSE (IF Head(s) = "\"" THEN <<"\\", "\"">>
          ELSE IF Head(s) = "\\" THEN <<"\\", "\\">>
          ELSE <<Head(s)>>) \o json_escape(Tail(s))

\* json.dumps(v) with the default separators ", " and ": ", keys in dict order
RECURSIVE json_dumps(_)
RECURSIVE json_dumps_items(_)
json_dumps_items(items) ==
    IF Len(items) = 0 THEN <<>>
    ELSE <<"\"">> \o json_escape(Head(items).key) \o <<"\"", ":", " ">>
         \o json_dumps(Head(items).value)
         \o (IF Len(items) > 1 THEN <<",", " ">> ELSE <<>>)
         \o json_dumps_items(Tail(items))

json_dumps(v) ==
    IF v.kind = "str"
    THEN <<"\"">> \o json_escape(v.s) \o <<"\"">>
    ELSE <<"{">> \o json_dumps_items(v.items) \o <<"}">>

\* the request_args dict literal of resolve_object
request_args(name) ==
    JDict(<< [key |-> <<"s","e","r","v","i","c","e">>,
              value |-> JStr(<<"M","a","s","t",".","N","a","m","e",".",
                               "L","o","o","k","u","p">>)],
             [key |-> <<"p","a","r","a","m","s">>,
              value |-> JDict(<< [key |-> <<"i","n","p","u","t">>,
                                  value |-> JStr(name)],
                                 [key |-> <<"f","o","r","m","a","t">>,
                                  value |-> JStr(<<"j","s","o","n">>)] >>)] >>)

\* urllib.parse.urlencode(query) of a str: a str has no items(), so urlencode
\* takes it for a sequence of pairs; when it is not empty its first element is
\* a one-character str and no tuple, and urlencode raises TypeError ("not a
\* valid non-string sequence or mapping object"); the empty str encodes to ""
urlencode(query) ==
    IF Len(query) > 0
    THEN [ok |-> FALSE, value |-> <<>>]
    ELSE [ok |-> TRUE,  value |-> <<>>]

-----------------------------------------------------------------------------
(* The response body and resolve_object.                                   *)

\* whether dict d (a sequence of [key, value] items) has the key
DictHas(d, key) == \E i \in 1..Len(d) : d[i].key = key

\* coord.SkyCoord(ra, dec, unit="deg")
SkyCoord(ra, dec) == [ra |-> ra, dec |-> dec, unit |-> "deg"]

\* "Could not resolve {} to a sky position.".format(objectname)
resolver_message(name) ==
    <<"C","o","u","l","d"," ","n","o","t"," ","r","e","s","o","l","v","e"," ">>
      \o name
      \o <<" ","t","o"," ","a"," ","s","k","y"," ","p","o","s","i","t","i","o","n",".">>

\* resolve_object(objectname), given conf.server, the version, the session's
\* default User-Agent and what the transport answers.  A body is
\* [wellformed, doc]: response.json() raises on a body that is no JSON and
\* gives the document otherwise; the document and each candidate are dicts.
resolve_object(name, srv, ver, ua, tr) ==
    LET dumped  == json_dumps(request_args(name))
        encoded == urlencode(dumped)
        built   == <<"json.dumps", "urlencode">>
    IN
    IF ~encoded.ok
    THEN Raise(Exc("TypeError", "urlencode", <<>>), <<>>, built)
    ELSE
    LET request_string == <<"r","e","q","u","e","s","t","=">> \o encoded.value
        sent == _simple_request(
                    srv \o <<"/","a","p","i","/","v","0","/","i","n","v","o","k","e">>,
                    request_string, ver, ua, tr)
        asked == built \o sent.trace
    IN
    IF sent.raised # NoExc
    THEN Raise(sent.raised, sent.wire, asked)
    ELSE
    LET response == CHOOSE r \in sent.returned : TRUE
        parsed   == asked \o <<"response.json">>
        result   == response.body.doc
        rc       == DictGet(result, "resolvedCoordinate", [kind |-> "null", items |-> <<>>])
        first    == rc.items[1]
    IN
    IF ~response.body.wellformed
    THEN Raise(Exc("JSONDecodeError", "response.json", <<>>), sent.wire, parsed)
    ELSE IF ~DictHas(result, "resolvedCoordinate")
    THEN Raise(Exc("KeyError", "result['resolvedCoordinate']", <<>>), sent.wire, parsed)
    ELSE IF rc.kind # "list"
    THEN Raise(Exc("TypeError", "len", <<>>), sent.wire, parsed)
    ELSE IF Len(rc.items) = 0
    THEN Raise(Exc("ResolverError", "raise", resolver_message(name)), sent.wire, parsed)
    ELSE IF ~DictHas(first, "ra")
    THEN Raise(Exc("KeyError", "['ra']", <<>>), sent.wire, parsed)
    ELSE IF ~DictHas(first, "decl")
    THEN Raise(Exc("KeyError", "['decl']", <<>>), sent.wire, parsed)
    ELSE Return(SkyCoord(DictGet(first, "ra", 0), DictGet(first, "decl", 0)),
                sent.wire, parsed \o <<"SkyCoord">>)

-----------------------------------------------------------------------------
(* What the callers pass and what the transport answers.                   *)

NameAlphabet == {"M", " ", "\""}

\* object names: not empty
ObjectNames == Strings(NameAlphabet, 1, MaxNameLen)

Servers == { <<"h","t","t","p","s",":","/","/","m","a","s","t",".","s","t","s","c","i",
               ".","e","d","u">>,
             <<"h","t","t","p",":","/","/","l","o","c","a","l","h","o","s","t">> }

Versions == { <<"0",".","4",".","6">>, <<"0",".","3",".","1","0">> }

SessionUserAgents ==
    { <<"p","y","t","h","o","n","-","r","e","q","u","e","s","t","s","/","2",".","3","1",".","0">>,
      <<"c","u","r","l">> }

Urls == Servers \cup { <<"h","t","t","p",":","/","/","l","o","c","a","l","h","o","s","t",
                         "/","a","p","i","/","v","0","/","i","n","v","o","k","e">> }

ParamStrings == { <<>>, <<"r","e","q","u","e","s","t","=","x">>, <<"a","=","1","&","b","=","2">> }

\* the status of the final response: both ends of each class of status codes
StatusCodes == {100, 199, 200, 204, 299, 300, 304, 399, 400, 404, 499, 500, 599}

\* candidates of resolvedCoordinate: complete in either field order, with
\* further fields, and with ra or decl missing
Candidates ==
    { << [key |-> "ra", value |-> 83], [key |-> "decl", value |-> 22] >>,
      << [key |-> "canonicalName", value |-> 0], [key |-> "decl", value |-> -5],
         [key |-> "ra", value |-> 10] >>,
      << [key |-> "ra", value |-> 83] >>,
      << [key |-> "decl", value |-> 22] >> }

JsonBody(doc) == [wellformed |-> TRUE, doc |-> doc]

\* bodies: no JSON at all, a document without resolvedCoordinate, one whose
\* resolvedCoordinate is null, and one with 0..MaxCandidates candidates
Bodies ==
    { [wellformed |-> FALSE, doc |-> <<>>],
      JsonBody(<< [key |-> "status", value |-> [kind |-> "str", items |-> <<>>]] >>),
      JsonBody(<< [key |-> "resolvedCoordinate", value |-> [kind |-> "null", items |-> <<>>]] >>) }
    \cup
    { JsonBody(<< [key |-> "resolvedCoordinate", value |-> [kind |-> "list", items |-> cs]],
                  [key |-> "status", value |-> [kind |-> "str", items |-> <<>>]] >>) :
        cs \in Strings(Candidates, 0, MaxCandidates) }

NoResponse == [status_code |-> 0, body |-> [wellformed |-> FALSE, doc |-> <<>>]]

\* the transport fails to connect, or answers with a response
Transports ==
    { [kind |-> "ConnectionError", response |-> NoResponse] }
    \cup
    { [kind |-> "response", response |-> [status_code |-> s, body |-> b]] :
        s \in StatusCodes, b \in Bodies }

NoTransport == [kind |-> "none", response |-> NoResponse]

-----------------------------------------------------------------------------
(* The state machine: one call of one function.                            *)

Functions == {"_parse_type", "_simple_request", "resolve_object"}

Init ==
    /\ pc = "call"
    /\ func \in Functions
    /\ dbtype \in (IF func = "_parse_type" THEN DbTypes ELSE {<<>>})
    /\ url \in (IF func = "_simple_request" THEN Urls ELSE {<<>>})
    /\ params \in (IF func = "_simple_request" THEN ParamStrings ELSE {<<>>})
    /\ objectname \in (IF func = "resolve_object" THEN ObjectNames ELSE {<<>>})
    /\ server \in (IF func = "resolve_object" THEN Servers ELSE {<<>>})
    /\ version \in (IF func = "_simple_request" THEN Versions
                    ELSE IF func = "resolve_object" THEN {<<"0",".","4",".","6">>}
                    ELSE {<<>>})
    /\ session_ua \in (IF func = "_simple_request" THEN SessionUserAgents
                       ELSE IF func = "resolve_object" THEN {<<"c","u","r","l">>}
                       ELSE {<<>>})
    /\ transport \in (IF func = "_parse_type" THEN {NoTransport} ELSE Transports)
    /\ wire = <<>>
    /\ trace = <<>>
    /\ raised = NoExc
    /\ returned = {}

Inputs == <<func, dbtype, url, params, objectname, server, version, session_ua, transport>>

\* the call ends as outcome o says
Finish(o) ==
    /\ pc' = "done"
    /\ raised' = o.raised
    /\ returned' = o.returned
    /\ wire' = o.wire
    /\ trace' = o.trace
    /\ UNCHANGED Inputs

Call_parse_type ==
    /\ pc = "call"
    /\ func = "_parse_type"
    /\ Finish(Return(_parse_type(dbtype), <<>>, <<>>))

Call_simple_request ==
    /\ pc = "call"
    /\ func = "_simple_request"
    /\ Finish(_simple_request(url, params, version, session_ua, transport))

Call_resolve_object ==
    /\ pc = "call"
    /\ func = "resolve_object"
    /\ Finish(resolve_object(objectname, server, version, session_ua, transport))

Next == Call_parse_type \/ Call_simple_request \/ Call_resolve_object

Spec == Init /\ [][Next]_vars

Done(f) == pc = "done" /\ func = f

-----------------------------------------------------------------------------
(* What the claims speak of.                                               *)

Succeeded(status_code) == 200 <= status_code /\ status_code <= 299

Answered == transport.kind = "response"

Status == transport.response.status_code

Body == transport.response.body

\* the body is JSON whose resolvedCoordinate is a sequence of candidates
HasCandidateList ==
    /\ Body.wellformed
    /\ DictHas(Body.doc, "resolvedCoordinate")
    /\ DictGet(Body.doc, "resolvedCoordinate", [kind |-> "null", items |-> <<>>]).kind = "list"

CandidateList == DictGet(Body.doc, "resolvedCoordinate", [kind |-> "null", items |-> <<>>]).items

Complete(candidate) == DictHas(candidate, "ra") /\ DictHas(candidate, "decl")

\* sub occurs in s
Contains(s, sub) ==
    \E i \in 0..(Len(s) - Len(sub)) : \A j \in 1..Len(sub) : s[i + j] = sub[j]

\* the step occurs in the trace
Took(step) == \E i \in 1..Len(trace) : trace[i] = step

\* the value of the header of that name, names compared without case
HeaderValues(headers, name) ==
    {headers[i].value : i \in {k \in 1..Len(headers) : lower(headers[k].key) = lower(name)}}

\* percent-encoding of a str (urllib.parse.quote): letters, digits and _.-~/
\* stay, every other character becomes %XX
SafeChars ==
    {LowerChars[i] : i \in 1..Len(LowerChars)} \cup {UpperChars[i] : i \in 1..Len(UpperChars)}
      \cup {"0","1","2","3","4","5","6","7","8","9","_",".","-","~","/"}

PercentCode(c) ==
    CASE c = " "  -> <<"%","2","0">>
      [] c = "\"" -> <<"%","2","2">>
      [] c = ","  -> <<"%","2","C">>
      [] c = ":"  -> <<"%","3","A">>
      [] c = "\\" -> <<"%","5","C">>
      [] c = "{"  -> <<"%","7","B">>
      [] c = "}"  -> <<"%","7","D">>
      [] OTHER    -> <<"%","?","?">>

RECURSIVE quote(_)
quote(s) ==
    IF Len(s) = 0 THEN <<>>
    ELSE (IF Head(s) \in SafeChars THEN <<Head(s)>> ELSE PercentCode(Head(s)))
         \o quote(Tail(s))

\* the triplet the table of recognized tokens gives
TableTriplet(t) ==
    IF t \in { <<"c","h","a","r">>, <<"s","t","r","i","n","g">>,
               <<"d","a","t","e","t","i","m","e">>, <<"d","a","t","e">> }
    THEN <<PyStr(<<"s","t","r","i","n","g">>), PyType("str"), PyStr(<<>>)>>
    ELSE IF t \in { <<"d","o","u","b","l","e">>, <<"f","l","o","a","t">>,
                    <<"d","e","c","i","m","a","l">> }
    THEN <<PyStr(<<"f","l","o","a","t">>), PyType("np.float64"), PyNaN>>
    ELSE IF t \in { <<"i","n","t">>, <<"s","h","o","r","t">>, <<"l","o","n","g">>,
                    <<"n","u","m","b","e","r">> }
    THEN <<PyStr(<<"i","n","t","e","g","e","r">>), PyType("np.int64"), PyInt(-999)>>
    ELSE IF t \in { <<"b","o","o","l","e","a","n">>, <<"b","i","n","a","r","y">> }
    THEN <<PyStr(<<"b","o","o","l","e","a","n">>), PyType("bool"), PyNone>>
    ELSE <<PyStr(<<"b","y","t","e">>), PyType("np.ubyte"), PyInt(-999)>>

RecognizedNames ==
    { <<"c","h","a","r">>, <<"s","t","r","i","n","g">>, <<"d","a","t","e","t","i","m","e">>,
      <<"d","a","t","e">>, <<"d","o","u","b","l","e">>, <<"f","l","o","a","t">>,
      <<"d","e","c","i","m","a","l">>, <<"i","n","t">>, <<"s","h","o","r","t">>,
      <<"l","o","n","g">>, <<"n","u","m","b","e","r">>, <<"b","o","o","l","e","a","n">>,
      <<"b","i","n","a","r","y">>, <<"u","n","s","i","g","n","e","d","b","y","t","e">> }

-----------------------------------------------------------------------------
(* The claims.                                                             *)

\* C1: when the service answers 2xx with a JSON body whose resolvedCoordinate
\* is not empty (and whose first candidate has ra and decl), resolve_object
\* returns the sky position of the candidate at index 0, in degrees.
C1_FirstCandidateReturned ==
    (Done("resolve_object") /\ Answered /\ Succeeded(Status) /\ HasCandidateList
        /\ Len(CandidateList) > 0 /\ Complete(CandidateList[1]))
    => returned = { [ra   |-> DictGet(CandidateList[1], "ra", 0),
                     dec  |-> DictGet(CandidateList[1], "decl", 0),
                     unit |-> "deg"] }

\* C2: when the service answers 2xx with a JSON body whose resolvedCoordinate
\* is empty, resolve_object raises ResolverError with a message that contains
\* the object name, and returns nothing.
C2_EmptyListIsResolverError ==
    (Done("resolve_object") /\ Answered /\ Succeeded(Status) /\ HasCandidateList
        /\ Len(CandidateList) = 0)
    => /\ raised.type = "ResolverError"
       /\ Contains(raised.msg, objectname)
       /\ returned = {}

\* C3: when the transport answers with a status outside 2xx, resolve_object
\* fails with the HTTPError that _simple_request's raise_for_status raised,
\* parses no body and constructs no sky position.
C3_HttpErrorPropagates ==
    (Done("resolve_object") /\ Answered /\ ~Succeeded(Status))
    => /\ raised.type = "HTTPError"
       /\ raised.at = "raise_for_status"
       /\ ~Took("response.json")
       /\ ~Took("SkyCoord")
       /\ returned = {}

\* C4: every call of resolve_object issues the request: one GET to
\* <conf.server>/api/v0/invoke whose params are "request=" followed by the
\* URL-encoded JSON of {service: Mast.Name.Lookup, params: {input: name,
\* format: json}}.
C4_RequestIssued ==
    Done("resolve_object")
    => /\ Len(wire) = 1
       /\ wire[1].method = "GET"
       /\ wire[1].url = server \o <<"/","a","p","i","/","v","0","/","i","n","v","o","k","e">>
       /\ wire[1].params = <<"r","e","q","u","e","s","t","=">>
                             \o quote(json_dumps(request_args(objectname)))

\* C5: for every letter-casing of a recognized token, _parse_type returns the
\* triplet the table gives for the token, which is also what it returns for
\* the token in upper case.
C5_CaseInsensitiveLookup ==
    (Done("_parse_type") /\ lower(dbtype) \in RecognizedNames)
    => /\ returned = {TableTriplet(lower(dbtype))}
       /\ returned = {_parse_type(upper(dbtype))}

\* C5 witness: "SHORT" was looked up and gave ('integer', np.int64, -999).
C5_Witness ==
    /\ Done("_parse_type")
    /\ dbtype = <<"S","H","O","R","T">>
    /\ returned = {<<PyStr(<<"i","n","t","e","g","e","r">>), PyType("np.int64"), PyInt(-999)>>}

\* C6: for every string that is no recognized token in any letter-casing,
\* _parse_type returns the token as the caller passed it, three times.
C6_EchoOfOriginalToken ==
    (Done("_parse_type") /\ lower(dbtype) \notin RecognizedNames)
    => returned = {<<PyStr(dbtype), PyStr(dbtype), PyStr(dbtype)>>}

\* C7 as stated: _simple_request raises HTTPError for every status outside
\* 2xx (1xx and 3xx too) and returns the response only for a 2xx status.
C7_FailsOutside2xx ==
    (Done("_simple_request") /\ Answered)
    => /\ (raised.type = "HTTPError") <=> ~Succeeded(Status)
       /\ (returned = {transport.response}) <=> Succeeded(Status)

\* C7 as amended: _simple_request raises HTTPError exactly for the statuses
\* 400..599 and returns the response object for every other status, 1xx and
\* 3xx as well as 2xx.
C7_FailsOn4xx5xxOnly ==
    (Done("_simple_request") /\ Answered)
    => /\ (raised.type = "HTTPError") <=> (400 <= Status /\ Status <= 599)
       /\ (returned = {transport.response}) <=> ~(400 <= Status /\ Status <= 599)
       /\ (returned = {}) <=> (400 <= Status /\ Status <= 599)

\* C7 witness: a 3xx response came back to the caller, nothing was raised.
C7_Witness ==
    /\ Done("_simple_request")
    /\ Answered
    /\ Status = 304
    /\ raised = NoExc
    /\ returned = {transport.response}

\* C8: the request _simple_request issues carries Content-Type
\* application/x-www-form-urlencoded, Accept text/plain and the User-Agent
\* "astroquery/<version> <transport default>", whatever url and params are.
C8_FixedHeaders ==
    Done("_simple_request")
    => /\ Len(wire) >= 1
       /\ \A i \in 1..Len(wire) :
            /\ wire[i].url = url
            /\ wire[i].params = params
            /\ Len(wire[i].headers) = 3
            /\ HeaderValues(wire[i].headers, <<"C","o","n","t","e","n","t","-","T","y","p","e">>)
                 = { <<"a","p","p","l","i","c","a","t","i","o","n","/","x","-","w","w","w",
                       "-","f","o","r","m","-","u","r","l","e","n","c","o","d","e","d">> }
            /\ HeaderValues(wire[i].headers, <<"A","c","c","e","p","t">>)
                 = { <<"t","e","x","t","/","p","l","a","i","n">> }
            /\ HeaderValues(wire[i].headers, <<"U","s","e","r","-","A","g","e","n","t">>)
                 = { <<"a","s","t","r","o","q","u","e","r","y","/">> \o version
                       \o <<" ">> \o session_ua }

\* C8 witness: a request with params went out under version 0.3.10 and the
\* default User-Agent "curl", as "astroquery/0.3.10 curl".
C8_Witness ==
    /\ Done("_simple_request")
    /\ params = <<"a","=","1","&","b","=","2">>
    /\ version = <<"0",".","3",".","1","0">>
    /\ session_ua = <<"c","u","r","l">>
    /\ Len(wire) = 1
    /\ HeaderValues(wire[1].headers, <<"u","s","e","r","-","a","g","e","n","t">>)
         = { <<"a","s","t","r","o","q","u","e","r","y","/","0",".","3",".","1","0",
               " ","c","u","r","l">> }

C10_PositionOnlyAfterSuccess ==
    Done("resolve_object")
    => /\ returned # {} =>
            /\ Answered /\ Succeeded(Status) /\ HasCandidateList
            /\ Len(CandidateList) > 0 /\ Complete(CandidateList[1])
       /\ (Answered /\ Succeeded(Status) /\ ~Body.wellformed)
            => /\ raised.type = "JSONDecodeError"
               /\ raised.at = "response.json"
               /\ returned = {}
       /\ (Answered /\ Succeeded(Status) /\ Body.wellformed
              /\ ~DictHas(Body.doc, "resolvedCoordinate"))
            => /\ raised.type = "KeyError"
               /\ raised.at = "result['resolvedCoordinate']"
               /\ returned = {}
       /\ (Answered /\ Succeeded(Status) /\ HasCandidateList
              /\ Len(CandidateList) > 0 /\ ~Complete(CandidateList[1]))
            => /\ raised.type = "KeyError"
               /\ raised.at \in {"['ra']", "['decl']"}
               /\ returned = {}

====
